---- MODULE Spec2Model ----
(***************************************************************************)
(* SolanaScope: the serverless handler (src/api/index.ts) with its routes  *)
(* POST /analyze/wallet (risk assessment), POST /detect/anomaly (anomaly   *)
(* report), GET /wallet/:address/balance, GET /wallet/:address/activity    *)
(* and GET /prices, together with the collaborator fetches that feed them; *)
(* and, as specifications of their own, POST /detect/anomaly of version    *)
(* 0.2.0 (src/unnamed/part_001) and POST /analyze/wallet of the Express    *)
(* server (src/src/index.ts).                                              *)
(*                                                                         *)
(* Numbers.  A balance is an integer number of lamports; it is kept as a   *)
(* record [sol, lamports] (whole SOL and the remaining lamports) because   *)
(* 10000 SOL = 10^13 lamports does not fit the checker's integers.  The    *)
(* code divides by LAMPORTS_PER_SOL in IEEE doubles and compares with the  *)
(* literals 0.1, 0.01 and 10000; division is correctly rounded and         *)
(* monotone, so these comparisons agree with the exact rational ones.      *)
(* An optional value (blockTime) is <<>> when null/undefined and <<v>>     *)
(* when it is the number v.                                                *)
(***************************************************************************)
EXTENDS Integers, Sequences, FiniteSets, TLC

(***************************************************************************)
(* Program constants                                                       *)
(***************************************************************************)
LAMPORTS_PER_SOL == 1000000000

WHALE_THRESHOLD == 10000

AnalyzeLimit == 20

AnomalyLimit == 50

DefaultActivityLimit == 20

MaxActivityLimit == 100

(***************************************************************************)
(* Generic helpers for the array methods the handlers use                  *)
(***************************************************************************)
\* JS truthiness of an optional number: null, undefined and 0 are falsy.
Truthy(opt) == opt # <<>> /\ opt[1] # 0

\* signatures.filter(s => s.blockTime).map(s => s.blockTime!)
RECURSIVE SelectTruthyTimes(_)
SelectTruthyTimes(s) ==
    IF s = <<>> THEN <<>>
    ELSE IF Truthy(Head(s).blockTime)
         THEN <<Head(s).blockTime[1]>> \o SelectTruthyTimes(Tail(s))
         ELSE SelectTruthyTimes(Tail(s))

BlockTimes(signatures) == SelectTruthyTimes(signatures)

\* array.slice(0, n) on a sequence
Slice(s, n) == SubSeq(s, 1, IF Len(s) < n THEN Len(s) ELSE n)

\* tokenAccounts.value.map(...).filter(t => t.balance > 0)
RECURSIVE HeldTokens(_)
HeldTokens(tokenAccounts) ==
    IF tokenAccounts = <<>> THEN <<>>
    ELSE IF Head(tokenAccounts).uiAmount > 0
         THEN <<[mint |-> Head(tokenAccounts).mint,
                 balance |-> Head(tokenAccounts).uiAmount]>>
              \o HeldTokens(Tail(tokenAccounts))
         ELSE HeldTokens(Tail(tokenAccounts))

\* solBalance = balance / LAMPORTS_PER_SOL compared with num/den < 1
SolBelowFraction(balance, num, den) ==
    balance.sol = 0 /\ balance.lamports < (LAMPORTS_PER_SOL \div den) * num

\* Mutant: a balance of exactly the threshold is not a whale.
IsWhaleStrict(balance) ==
    balance.sol > WHALE_THRESHOLD \/ (balance.sol = WHALE_THRESHOLD /\ balance.lamports > 0)

\* solBalance >= WHALE_THRESHOLD
IsWhale(balance) == balance.sol >= WHALE_THRESHOLD

(***************************************************************************)
(* GET /wallet/:address/balance and GET /wallet/:address/activity          *)
(***************************************************************************)
WalletBalance(balance) ==
    [status |-> 200, kind |-> "balance", isWhale |-> IsWhale(balance)]

DigitVal(ch) == CASE ch = "0" -> 0 [] ch = "1" -> 1 [] ch = "2" -> 2 [] OTHER -> -1

\* value of a string of decimal digits, <<>> when another character occurs
RECURSIVE ParseDigits(_, _)
ParseDigits(str, acc) ==
    IF str = <<>> THEN <<acc>>
    ELSE IF DigitVal(Head(str)) < 0 THEN <<>>
         ELSE ParseDigits(Tail(str), 10 * acc + DigitVal(Head(str)))

\* Number(query.limit): <<>> is NaN.  undefined gives NaN, "" gives 0, an
\* optionally signed string of digits its value, anything else NaN.
ToNumber(param) ==
    IF param = <<>> THEN <<>>
    ELSE LET str == param[1]
         IN IF str = <<>> THEN <<0>>
            ELSE IF Head(str) = "-"
                 THEN IF Tail(str) = <<>> THEN <<>>
                      ELSE LET v == ParseDigits(Tail(str), 0)
                           IN IF v = <<>> THEN <<>> ELSE <<0 - v[1]>>
                 ELSE ParseDigits(str, 0)

\* Mutant: the cap Math.min(..., 100) is missing.
ActivityLimitNoCap(param) ==
    LET n == ToNumber(param)
    IN IF n = <<>> \/ n[1] = 0 THEN DefaultActivityLimit ELSE n[1]

\* Math.min(Number(query.limit) || 20, 100)
ActivityLimit(param) ==
    LET n == ToNumber(param)
        v == IF n = <<>> \/ n[1] = 0 THEN DefaultActivityLimit ELSE n[1]
    IN IF v < MaxActivityLimit THEN v ELSE MaxActivityLimit

\* signatures.map(sig => ({ signature, slot, blockTime, success, memo }))
WalletActivity(signatures) ==
    [status |-> 200,
     kind |-> "activity",
     transactions |-> [i \in 1..Len(signatures) |->
                         [signature |-> signatures[i].signature,
                          blockTime |-> signatures[i].blockTime,
                          success |-> signatures[i].err = "null"]],
     count |-> Len(signatures)]

(***************************************************************************)
(* POST /analyze/wallet: risk assessment                                   *)
(***************************************************************************)
AddFactor(risk, delta, tag) ==
    [score |-> risk.score + delta, factors |-> Append(risk.factors, tag)]

\* Mutant: the span test needs only one time-stamped record.
HighFrequencyOneTime(signatures) ==
    /\ Len(signatures) >= 15
    /\ LET times == BlockTimes(signatures)
       IN /\ Len(times) >= 1
          /\ times[1] - times[Len(times)] < 3600

\* Mutant: neither the length nor the number of times is tested.
HighFrequencyUnguarded(signatures) ==
    LET times == BlockTimes(signatures)
    IN Len(times) < 2 \/ times[1] - times[Len(times)] < 3600

HighFrequency(signatures) ==
    /\ Len(signatures) >= 15
    /\ LET times == BlockTimes(signatures)
       IN /\ Len(times) >= 2
          /\ times[1] - times[Len(times)] < 3600

\* Mutant: the activity rule is an else-branch of the balance rule.
RiskRulesElseIf(balance, tokens, signatures) ==
    LET r0 == [score |-> 0, factors |-> <<>>]
        r1 == IF SolBelowFraction(balance, 1, 10)
              THEN AddFactor(r0, 20, "low_sol_balance") ELSE r0
        r2 == IF ~SolBelowFraction(balance, 1, 10) /\ Len(signatures) = 0
              THEN AddFactor(r1, 30, "no_recent_activity") ELSE r1
        r3 == IF Len(tokens) = 0
              THEN AddFactor(r2, 10, "no_token_holdings") ELSE r2
        r4 == IF HighFrequency(signatures)
              THEN AddFactor(r3, 15, "high_frequency_activity") ELSE r3
    IN r4

RiskRules(balance, tokens, signatures) ==
    LET r0 == [score |-> 0, factors |-> <<>>]
        r1 == IF SolBelowFraction(balance, 1, 10)
              THEN AddFactor(r0, 20, "low_sol_balance") ELSE r0
        r2 == IF Len(signatures) = 0
              THEN AddFactor(r1, 30, "no_recent_activity") ELSE r1
        r3 == IF Len(tokens) = 0
              THEN AddFactor(r2, 10, "no_token_holdings") ELSE r2
        r4 == IF HighFrequency(signatures)
              THEN AddFactor(r3, 15, "high_frequency_activity") ELSE r3
    IN r4

\* Mutant: the boundaries are inclusive on the wrong side.
RiskLevelLoose(riskScore) ==
    IF riskScore <= 20 THEN "low" ELSE IF riskScore <= 50 THEN "medium" ELSE "high"

\* Mutant: high starts at 45.
RiskLevelHighFrom45(riskScore) ==
    IF riskScore < 20 THEN "low" ELSE IF riskScore < 45 THEN "medium" ELSE "high"

RiskLevel(riskScore) ==
    IF riskScore < 20 THEN "low" ELSE IF riskScore < 50 THEN "medium" ELSE "high"

AnalyzeWallet(balance, tokenAccounts, signatures) ==
    LET tokens == HeldTokens(tokenAccounts)
        r == RiskRules(balance, tokens, signatures)
    IN [status |-> 200,
        kind |-> "analysis",
        summary |-> [tokenCount |-> Len(tokens),
                     isWhale |-> IsWhale(balance),
                     recentTransactions |-> Len(signatures)],
        risk |-> [score |-> r.score,
                  level |-> RiskLevel(r.score),
                  factors |-> r.factors]]

(***************************************************************************)
(* POST /detect/anomaly: anomaly report                                    *)
(***************************************************************************)
Anomaly(type, severity) == [type |-> type, severity |-> severity]

\* signatures.filter(s => s.err !== null).length
RECURSIVE FailedCount(_)
FailedCount(s) ==
    IF s = <<>> THEN 0
    ELSE (IF Head(s).err # "null" THEN 1 ELSE 0) + FailedCount(Tail(s))

\* Mutant: exactly 30% failed already flags.
HighFailureRateInclusive(signatures) ==
    /\ Len(signatures) > 0
    /\ FailedCount(signatures) * 10 >= 3 * Len(signatures)

\* failRate = length > 0 ? failed / length : 0;  failRate > 0.3
HighFailureRate(signatures) ==
    /\ Len(signatures) > 0
    /\ FailedCount(signatures) * 10 > 3 * Len(signatures)

BurstActivity(signatures) ==
    /\ Len(signatures) >= 20
    /\ LET times == BlockTimes(signatures)
       IN /\ Len(times) >= 10
          /\ times[1] - times[10] < 600

\* Mutant: a balance of exactly the threshold is not a whale.
WhaleWalletStrict(balance) ==
    balance.sol > WHALE_THRESHOLD \/ (balance.sol = WHALE_THRESHOLD /\ balance.lamports > 0)

WhaleWallet(balance) == IsWhale(balance)

\* Mutant: 10 records already count as active.
DrainedWalletInclusive(balance, signatures) ==
    SolBelowFraction(balance, 1, 100) /\ Len(signatures) >= 10

\* Mutant: the activity condition is missing.
DrainedWalletNoActivity(balance, signatures) == SolBelowFraction(balance, 1, 100)

\* Mutant: only the lamports below one SOL are compared.
DrainedWalletLamportsOnly(balance, signatures) ==
    balance.lamports < (LAMPORTS_PER_SOL \div 100) /\ Len(signatures) > 10

DrainedWallet(balance, signatures) ==
    SolBelowFraction(balance, 1, 100) /\ Len(signatures) > 10

\* sig.signature.slice(0, 10)
SigPrefix(signature) == Slice(signature, 10)

\* addressCounts after the loop: prefix -> number of records carrying it
AddressCounts(signatures) ==
    LET keys == {SigPrefix(signatures[i].signature) : i \in 1..Len(signatures)}
    IN [k \in keys |->
          Cardinality({i \in 1..Len(signatures) :
                          SigPrefix(signatures[i].signature) = k})]

\* Mutant: one repeated pattern is enough.
CircularTradingOneGroup(signatures) ==
    LET addressCounts == AddressCounts(signatures)
        repeatedPatterns ==
            Cardinality({k \in DOMAIN addressCounts : addressCounts[k] >= 3})
    IN repeatedPatterns >= 1

\* Object.values(addressCounts).filter(c => c >= 3).length >= 2
CircularTrading(signatures) ==
    LET addressCounts == AddressCounts(signatures)
        repeatedPatterns ==
            Cardinality({k \in DOMAIN addressCounts : addressCounts[k] >= 3})
    IN repeatedPatterns >= 2

\* times.sort((a, b) => b - a): insertion into a descending sequence
RECURSIVE InsertDesc(_, _)
InsertDesc(x, s) ==
    IF s = <<>> THEN <<x>>
    ELSE IF x >= Head(s) THEN <<x>> \o s
         ELSE <<Head(s)>> \o InsertDesc(x, Tail(s))

RECURSIVE SortDesc(_)
SortDesc(s) == IF s = <<>> THEN <<>> ELSE InsertDesc(Head(s), SortDesc(Tail(s)))

RECURSIVE SumSeq(_)
SumSeq(s) == IF s = <<>> THEN 0 ELSE Head(s) + SumSeq(Tail(s))

\* Mutant: the timing rule sorts the fetched array itself (null counts as 0).
RECURSIVE InsertRecordDesc(_, _)
InsertRecordDesc(r, s) ==
    LET key(x) == IF x.blockTime = <<>> THEN 0 ELSE x.blockTime[1]
    IN IF s = <<>> THEN <<r>>
       ELSE IF key(r) >= key(Head(s)) THEN <<r>> \o s
            ELSE <<Head(s)>> \o InsertRecordDesc(r, Tail(s))

RECURSIVE SortedInPlace(_)
SortedInPlace(signatures) ==
    IF signatures = <<>> THEN <<>>
    ELSE InsertRecordDesc(Head(signatures), SortedInPlace(Tail(signatures)))

\* The fetched array after the rules ran: filter() and map() build new arrays
\* and sort() reorders the array map() returned, so signatures is as before.
SignaturesAfterRules(signatures) == signatures

\* avgInterval > 0 && stdDev / avgInterval < 0.15 over the consecutive
\* differences of the sorted times.  With n intervals of sum S and sum of
\* squares Q: variance = Q/n - (S/n)^2, so for S > 0 the test is
\* n*Q - S^2 < 0.0225 * S^2, i.e. 400 * (n*Q - S^2) < 9 * S^2.
TimingPattern(signatures) ==
    /\ Len(signatures) >= 10
    /\ LET times == SortDesc(BlockTimes(signatures))
       IN /\ Len(times) >= 5
          /\ LET intervals == [i \in 1..(Len(times) - 1) |-> times[i] - times[i + 1]]
                 n == Len(intervals)
                 S == SumSeq(intervals)
                 Q == SumSeq([i \in 1..n |-> intervals[i] * intervals[i]])
             IN /\ S > 0
                /\ n * Q - S * S <= (9 * S * S - 1) \div 400

\* Mutant: an info entry raises the overall risk to medium.
OverallRiskInfoElevates(anomalies) ==
    IF \E i \in 1..Len(anomalies) : anomalies[i].severity = "high" THEN "high"
    ELSE IF \E i \in 1..Len(anomalies) : anomalies[i].severity \in {"medium", "info"}
         THEN "medium" ELSE "low"

OverallRisk(anomalies) ==
    IF \E i \in 1..Len(anomalies) : anomalies[i].severity = "high" THEN "high"
    ELSE IF \E i \in 1..Len(anomalies) : anomalies[i].severity = "medium"
         THEN "medium" ELSE "low"

\* Mutant: the drained-wallet rule is an else-branch of the burst rule.
AnomalyRulesElseIf(balance, signatures) ==
    LET a0 == <<>>
        a1 == IF HighFailureRate(signatures)
              THEN Append(a0, Anomaly("high_failure_rate", "medium")) ELSE a0
        a2 == IF BurstActivity(signatures)
              THEN Append(a1, Anomaly("burst_activity", "high")) ELSE a1
        a3 == IF WhaleWallet(balance)
              THEN Append(a2, Anomaly("whale_wallet", "info")) ELSE a2
        a4 == IF ~BurstActivity(signatures) /\ DrainedWallet(balance, signatures)
              THEN Append(a3, Anomaly("drained_wallet", "high")) ELSE a3
        a5 == IF CircularTrading(signatures)
              THEN Append(a4, Anomaly("potential_circular_trading", "medium")) ELSE a4
        a6 == IF TimingPattern(signatures)
              THEN Append(a5, Anomaly("automated_timing_pattern", "medium")) ELSE a5
    IN a6

AnomalyRules(balance, signatures) ==
    LET a0 == <<>>
        a1 == IF HighFailureRate(signatures)
              THEN Append(a0, Anomaly("high_failure_rate", "medium")) ELSE a0
        a2 == IF BurstActivity(signatures)
              THEN Append(a1, Anomaly("burst_activity", "high")) ELSE a1
        a3 == IF WhaleWallet(balance)
              THEN Append(a2, Anomaly("whale_wallet", "info")) ELSE a2
        a4 == IF DrainedWallet(balance, signatures)
              THEN Append(a3, Anomaly("drained_wallet", "high")) ELSE a3
        a5 == IF CircularTrading(signatures)
              THEN Append(a4, Anomaly("potential_circular_trading", "medium")) ELSE a4
        a6 == IF TimingPattern(signatures)
              THEN Append(a5, Anomaly("automated_timing_pattern", "medium")) ELSE a5
    IN a6

DetectAnomaly(balance, signatures) ==
    LET anomalies == AnomalyRules(balance, signatures)
    IN [status |-> 200,
        kind |-> "anomalies",
        transactionsAnalyzed |-> Len(signatures),
        anomalies |-> anomalies,
        anomalyCount |-> Len(anomalies),
        overallRisk |-> OverallRisk(anomalies)]

(***************************************************************************)
(* POST /detect/anomaly of version 0.2.0 (src/unnamed/part_001): the first *)
(* four rules, written as in version 0.4.0                                 *)
(***************************************************************************)
\* Mutant: the whale rule comes first.
AnomalyRulesV2WhaleFirst(balance, signatures) ==
    LET a0 == <<>>
        a1 == IF WhaleWallet(balance)
              THEN Append(a0, Anomaly("whale_wallet", "info")) ELSE a0
        a2 == IF HighFailureRate(signatures)
              THEN Append(a1, Anomaly("high_failure_rate", "medium")) ELSE a1
        a3 == IF BurstActivity(signatures)
              THEN Append(a2, Anomaly("burst_activity", "high")) ELSE a2
        a4 == IF DrainedWallet(balance, signatures)
              THEN Append(a3, Anomaly("drained_wallet", "high")) ELSE a3
    IN a4

AnomalyRulesV2(balance, signatures) ==
    LET a0 == <<>>
        a1 == IF HighFailureRate(signatures)
              THEN Append(a0, Anomaly("high_failure_rate", "medium")) ELSE a0
        a2 == IF BurstActivity(signatures)
              THEN Append(a1, Anomaly("burst_activity", "high")) ELSE a1
        a3 == IF WhaleWallet(balance)
              THEN Append(a2, Anomaly("whale_wallet", "info")) ELSE a2
        a4 == IF DrainedWallet(balance, signatures)
              THEN Append(a3, Anomaly("drained_wallet", "high")) ELSE a3
    IN a4

DetectAnomalyV2(balance, signatures) ==
    LET anomalies == AnomalyRulesV2(balance, signatures)
    IN [status |-> 200,
        kind |-> "anomalies",
        transactionsAnalyzed |-> Len(signatures),
        anomalies |-> anomalies,
        anomalyCount |-> Len(anomalies),
        overallRisk |-> OverallRisk(anomalies)]

(***************************************************************************)
(* POST /analyze/wallet of the Express server (src/src/index.ts)           *)
(***************************************************************************)
\* Mutant: the Express server fetches as many records as the serverless one.
ExpressLimitAsServerless == 20

ExpressLimit == 10

RiskRulesExpress(balance, tokens, signatures) ==
    LET recentTxCount == Len(signatures)
        r0 == [score |-> 0, factors |-> <<>>]
        r1 == IF SolBelowFraction(balance, 1, 10)
              THEN AddFactor(r0, 20, "low_sol_balance") ELSE r0
        r2 == IF recentTxCount = 0
              THEN AddFactor(r1, 30, "no_recent_activity") ELSE r1
        r3 == IF Len(tokens) = 0
              THEN AddFactor(r2, 10, "no_token_holdings") ELSE r2
    IN r3

\* signatures[0]?.blockTime ? new Date(signatures[0].blockTime * 1000) : null
LastActive(signatures) ==
    IF Len(signatures) > 0 /\ Truthy(signatures[1].blockTime)
    THEN <<signatures[1].blockTime[1] * 1000>> ELSE <<>>

AnalyzeWalletExpress(balance, tokenAccounts, signatures) ==
    LET tokens == HeldTokens(tokenAccounts)
        r == RiskRulesExpress(balance, tokens, signatures)
    IN [status |-> 200,
        kind |-> "analysis",
        summary |-> [tokenCount |-> Len(tokens),
                     isWhale |-> IsWhale(balance),
                     recentTransactions |-> Len(signatures),
                     lastActive |-> LastActive(signatures)],
        risk |-> [score |-> r.score,
                  level |-> RiskLevel(r.score),
                  factors |-> r.factors]]

\* res.status(400).json({ error: 'address required in body' })
AddressRequiredExpress ==
    [status |-> 400, kind |-> "error", error |-> "address required in body"]

\* catch (error): res.status(400).json({ error: error.message })
ClientError(message) == [status |-> 400, kind |-> "error", error |-> message]

(***************************************************************************)
(* The array reads and divisions the rules execute.  An access is          *)
(* <<"index", length, index>> (0-based, as in the code) or                 *)
(* <<"divide", divisor, 0>>; it is listed when the guards around it let it  *)
(* execute.                                                                *)
(***************************************************************************)
\* times[0] - times[times.length - 1] under length >= 15 and times.length >= 2
HighFrequencyAccesses(signatures) ==
    LET times == BlockTimes(signatures)
    IN IF Len(signatures) >= 15 /\ Len(times) >= 2
       THEN {<<"index", Len(times), 0>>, <<"index", Len(times), Len(times) - 1>>}
       ELSE {}

\* failedTxs.length / signatures.length under signatures.length > 0
FailureRateAccesses(signatures) ==
    IF Len(signatures) > 0 THEN {<<"divide", Len(signatures), 0>>} ELSE {}

\* Mutant: the burst rule reads times[9] as soon as one time is known.
BurstAccessesUnguarded(signatures) ==
    LET times == BlockTimes(signatures)
    IN IF Len(signatures) >= 20 /\ Len(times) >= 1
       THEN {<<"index", Len(times), 0>>, <<"index", Len(times), 9>>}
       ELSE {}

\* times[0] - times[9] under length >= 20 and times.length >= 10
BurstAccesses(signatures) ==
    LET times == BlockTimes(signatures)
    IN IF Len(signatures) >= 20 /\ Len(times) >= 10
       THEN {<<"index", Len(times), 0>>, <<"index", Len(times), 9>>}
       ELSE {}

\* the loop reads times[i] and times[i + 1] for i < times.length - 1; the two
\* averages divide by intervals.length; stdDev / avgInterval is evaluated
\* only when avgInterval > 0 holds
TimingAccesses(signatures) ==
    LET times == SortDesc(BlockTimes(signatures))
        n == Len(times) - 1
    IN IF Len(signatures) >= 10 /\ Len(times) >= 5
       THEN {<<"index", Len(times), i>> : i \in 0..(n - 1)}
              \cup {<<"index", Len(times), i + 1>> : i \in 0..(n - 1)}
              \cup {<<"divide", n, 0>>}
              \cup (IF times[1] - times[Len(times)] > 0
                    THEN {<<"divide", times[1] - times[Len(times)], 0>>} ELSE {})
       ELSE {}

AnalyzeAccesses(signatures) == HighFrequencyAccesses(signatures)

DetectAccesses(signatures) ==
    FailureRateAccesses(signatures) \cup BurstAccesses(signatures)
        \cup TimingAccesses(signatures)

(***************************************************************************)
(* The collaborators' answers: bounded sets of chain states                *)
(***************************************************************************)
\* Longest signature history the chain holds for the address.
MaxHist == 21

Lens == {0, 1, 9, 10, 11, 14, 15, 16, 19, 20, MaxHist}

Splits == {1, 9, 10, 14, 15}

TimeVals == {0, 1, 600, 601, 3600, 3601}

Steps == {60, 180}

OptTimes == {<<>>} \cup {<<t>> : t \in TimeVals}

Balances ==
    {[sol |-> 0, lamports |-> 9999999], [sol |-> 0, lamports |-> 10000000],
     [sol |-> 0, lamports |-> 99999999], [sol |-> 0, lamports |-> 100000000],
     [sol |-> 9999, lamports |-> 999999999], [sol |-> 10000, lamports |-> 0]}

TokenAccountLists ==
    {<<>>,
     <<[mint |-> "mintA", uiAmount |-> 0]>>,
     <<[mint |-> "mintA", uiAmount |-> 0], [mint |-> "mintB", uiAmount |-> 5]>>}

\* Block times, most recent first: c records at v1, the rest at v2.
TwoSegmentTimes ==
    {[i \in 1..n |-> IF i <= c THEN v1 ELSE v2] :
        <<n, c, v1, v2>> \in
            {q \in Lens \X Splits \X OptTimes \X OptTimes :
                /\ q[2] <= q[1]
                /\ (q[3] # <<>> /\ q[4] # <<>>) => q[3][1] >= q[4][1]}}

\* Records of a regular profile that carry a block time: 4, 5 or all of them.
StampedCounts(n) == {k \in {4, 5, n} : k <= n}

\* Seconds by which the second record of a regular profile is displaced.
Jitters == {0, 19, 20}

\* Block times, most recent first: the first k records one every step seconds
\* down to off (0 or 1), the second of them j seconds late; the rest undefined.
RegularTimes ==
    {[i \in 1..n |->
        IF i <= k THEN <<step * (k - i) + off + (IF i = 2 THEN j ELSE 0)>> ELSE <<>>] :
        <<n, k, step, off, j>> \in
            {q \in Lens \X (0..MaxHist) \X Steps \X {0, 1} \X Jitters :
                /\ q[2] \in StampedCounts(q[1])
                /\ q[5] # 0 => (q[2] = q[1] /\ q[4] = 1 /\ q[2] >= 3)}}

TimeProfiles == TwoSegmentTimes \cup RegularTimes \cup {<<>>}

\* How many of n records failed: "none", "at" exactly 30% (rounded down),
\* "over" one more than that.
FailedOf(kind, n) ==
    IF kind = "none" THEN 0
    ELSE IF kind = "at" THEN (3 * n) \div 10
    ELSE IF (3 * n) \div 10 + 1 <= n THEN (3 * n) \div 10 + 1 ELSE n

\* Signature prefixes: the first a records share one 10-character prefix, the
\* next b another, every later record has a prefix of its own.
PrefixPatterns == {<<0, 0>>, <<2, 2>>, <<3, 2>>, <<3, 3>>, <<MaxHist, 0>>}

Annotations ==
    {<<"none", p>> : p \in PrefixPatterns}
        \cup {<<"at", <<0, 0>> >>, <<"over", <<0, 0>> >>, <<"over", <<3, 3>> >>}

\* An 11-character signature: records of one group agree on the first 10
\* characters and differ in the 11th; groups differ in the 10th only.
SignatureOf(i, p) ==
    LET g == IF i <= p[1] THEN 100
             ELSE IF i <= p[1] + p[2] THEN 101 ELSE i
    IN <<1, 1, 1, 1, 1, 1, 1, 1, 1, g, i>>

HistoryOf(times, a) ==
    [i \in 1..Len(times) |->
        [signature |-> SignatureOf(i, a[2]),
         blockTime |-> times[i],
         err |-> IF i <= FailedOf(a[1], Len(times)) THEN "InstructionError" ELSE "null"]]

Histories == {HistoryOf(times, a) : <<times, a>> \in TimeProfiles \X Annotations}

\* The activity listing only relays the records: one history of each length.
ActivityHistories ==
    {HistoryOf([i \in 1..n |-> <<60 * (n - i) + 1>>], <<"over", <<0, 0>> >>) : n \in Lens}

\* Longest value of the limit query parameter.
MaxParamLen == 3

ParamChars == {"0", "1", "2", "-", "x"}

RECURSIVE StringsUpTo(_)
StringsUpTo(n) ==
    IF n = 0 THEN {<<>>}
    ELSE LET shorter == StringsUpTo(n - 1)
         IN shorter \cup {Append(str, ch) : <<str, ch>> \in shorter \X ParamChars}

\* query.limit: absent (<<>>) or a string (<<str>>)
LimitParams == {<<>>} \cup {<<str>> : str \in StringsUpTo(MaxParamLen)}

(***************************************************************************)
(* GET /prices: the oracle price of every configured feed                  *)
(***************************************************************************)
\* Object.keys(PYTH_FEEDS), in insertion order
PYTH_FEEDS ==
    <<"SOL/USD", "BTC/USD", "ETH/USD", "USDC/USD", "JUP/USD", "BONK/USD", "WIF/USD",
      "RAY/USD", "ORCA/USD">>

\* Number of feeds of the table that are configured.
MaxFeeds == 4

ConfiguredFeeds ==
    SubSeq(PYTH_FEEDS, 1, IF MaxFeeds < Len(PYTH_FEEDS) THEN MaxFeeds ELSE Len(PYTH_FEEDS))

\* How the callback of one feed ends: fetch(), json() or the conversion of
\* the answer throws, the status is not OK, the answer holds no parsed price,
\* or it holds one and the record is returned.
FeedOutcomes == {"throws", "notOk", "noData", "data"}

\* Mutant: the status of the answer is not tested.
FeedResultNoOkTest(pair, outcome) ==
    IF outcome \in {"data", "notOk"} THEN <<[pair |-> pair]>> ELSE <<>>

\* the async callback of one feed: null (<<>>) unless price data arrived
FeedResult(pair, outcome) ==
    IF outcome = "throws" THEN <<>>
    ELSE IF outcome = "notOk" THEN <<>>
    ELSE IF outcome = "noData" THEN <<>>
    ELSE <<[pair |-> pair]>>

\* for (const result of results) if (result) prices[result.pair] = ...;
\* count: Object.keys(prices).length; availablePairs: Object.keys(PYTH_FEEDS)
PricesResponse(outcomes) ==
    LET results == [i \in 1..Len(ConfiguredFeeds) |->
                       FeedResult(ConfiguredFeeds[i], outcomes[i])]
        kept == {i \in 1..Len(results) : results[i] # <<>>}
        prices == [p \in {results[i][1].pair : i \in kept} |-> [source |-> "pyth"]]
    IN [status |-> 200,
        kind |-> "prices",
        prices |-> prices,
        count |-> Cardinality(DOMAIN prices),
        availablePairs |-> ConfiguredFeeds]

(***************************************************************************)
(* Request bodies and error responses                                      *)
(***************************************************************************)
\* req.body: <<>> when missing, else <<[address |-> a]>> with a = <<>> when
\* the body has no address and a = <<str>> when it has the string str
Bodies ==
    {<<>>, <<[address |-> <<>>]>>, <<[address |-> <<"">>]>>,
     <<[address |-> <<"Wallet1111">>]>>}

\* const { address } = req.body || {}
AddressOf(reqBody) == IF reqBody = <<>> THEN <<>> ELSE reqBody[1].address

\* !address: undefined and the empty string are falsy
NoAddress(reqBody) == AddressOf(reqBody) \in {<<>>, <<"">>}

\* res.status(400).json({ error: 'address required' })
AddressRequired == [status |-> 400, kind |-> "error", error |-> "address required"]

\* req.url without the query string, by route
PathOf(r) ==
    CASE r = "analyze" -> "/analyze/wallet"
      [] r = "anomaly" -> "/detect/anomaly"
      [] r = "balance" -> "/wallet/:address/balance"
      [] r = "activity" -> "/wallet/:address/activity"
      [] r = "prices" -> "/prices"
      [] OTHER -> "/"

\* error.message of the rejection of a collaborator call
MessageOf(fetch) == fetch

\* catch (error): res.status(500).json({ error: error.message, path })
ServerError(message, path) ==
    [status |-> 500, kind |-> "error", error |-> message, path |-> path]

(***************************************************************************)
(* The handler as a state machine: one request at a time                   *)
(***************************************************************************)
VARIABLES pc, route, body, query, limit, pending, failed, balance, tokenAccounts,
          signatures, feeds, response

vars == <<pc, route, body, query, limit, pending, failed, balance, tokenAccounts,
          signatures, feeds, response>>

NoResponse == [status |-> 0, kind |-> "none"]

Init ==
    /\ pc = "idle"
    /\ route = "none"
    /\ body = <<>>
    /\ query = <<>>
    /\ limit = 0
    /\ pending = {}
    /\ failed = "none"
    /\ balance = <<>>
    /\ tokenAccounts = <<>>
    /\ signatures = <<>>
    /\ feeds = <<>>
    /\ response = NoResponse

\* Mutant of ReceiveAnalyze: the fetches are awaited one after the other.
ReceiveAnalyzeSequential ==
    /\ pc = "idle"
    /\ \E b \in Bodies : ~NoAddress(b) /\ body' = b
    /\ pc' = "fetching"
    /\ route' = "analyze"
    /\ limit' = AnalyzeLimit
    /\ pending' = {"getBalance"}
    /\ UNCHANGED <<feeds, query, failed, balance, tokenAccounts, signatures, response>>

\* POST /analyze/wallet with an address: the three fetches are issued.
ReceiveAnalyze ==
    /\ pc = "idle"
    /\ \E b \in Bodies : ~NoAddress(b) /\ body' = b
    /\ pc' = "fetching"
    /\ route' = "analyze"
    /\ limit' = AnalyzeLimit
    /\ pending' = {"getBalance", "getParsedTokenAccountsByOwner", "getSignaturesForAddress"}
    /\ UNCHANGED <<feeds, query, failed, balance, tokenAccounts, signatures, response>>

\* Mutant of RejectAnalyze: the address is tested after the fetches were issued.
RejectAnalyzeAfterFetch ==
    /\ pc = "idle"
    /\ \E b \in Bodies : NoAddress(b) /\ body' = b
    /\ pc' = "fetching"
    /\ route' = "analyze"
    /\ limit' = AnalyzeLimit
    /\ pending' = {"getBalance", "getParsedTokenAccountsByOwner", "getSignaturesForAddress"}
    /\ UNCHANGED <<feeds, query, failed, balance, tokenAccounts, signatures, response>>

\* POST /analyze/wallet without an address: 400 before any fetch.
RejectAnalyze ==
    /\ pc = "idle"
    /\ \E b \in Bodies : NoAddress(b) /\ body' = b
    /\ pc' = "responded"
    /\ route' = "analyze"
    /\ response' = AddressRequired
    /\ UNCHANGED <<feeds, query, limit, pending, failed, balance, tokenAccounts, signatures>>

\* POST /detect/anomaly without an address: 400 before any fetch.
RejectAnomaly ==
    /\ pc = "idle"
    /\ \E b \in Bodies : NoAddress(b) /\ body' = b
    /\ pc' = "responded"
    /\ route' = "anomaly"
    /\ response' = AddressRequired
    /\ UNCHANGED <<feeds, query, limit, pending, failed, balance, tokenAccounts, signatures>>

\* POST /detect/anomaly with an address: the two fetches are issued.
ReceiveAnomaly ==
    /\ pc = "idle"
    /\ \E b \in Bodies : ~NoAddress(b) /\ body' = b
    /\ pc' = "fetching"
    /\ route' = "anomaly"
    /\ limit' = AnomalyLimit
    /\ pending' = {"getBalance", "getSignaturesForAddress"}
    /\ UNCHANGED <<feeds, query, failed, balance, tokenAccounts, signatures, response>>

\* GET /wallet/:address/balance
ReceiveBalance ==
    /\ pc = "idle"
    /\ pc' = "fetching"
    /\ route' = "balance"
    /\ pending' = {"getBalance"}
    /\ UNCHANGED <<feeds, body, query, limit, failed, balance, tokenAccounts, signatures, response>>

\* GET /wallet/:address/activity?limit=...
ReceiveActivity ==
    /\ pc = "idle"
    /\ pc' = "fetching"
    /\ route' = "activity"
    /\ \E q \in LimitParams : query' = q /\ limit' = ActivityLimit(q)
    /\ pending' = {"getSignaturesForAddress"}
    /\ UNCHANGED <<feeds, body, failed, balance, tokenAccounts, signatures, response>>

GetBalanceDone ==
    /\ pc = "fetching"
    /\ "getBalance" \in pending
    /\ \E b \in Balances : balance' = <<b>>
    /\ pending' = pending \ {"getBalance"}
    /\ UNCHANGED <<feeds, pc, route, body, query, limit, failed, tokenAccounts, signatures, response>>

GetTokenAccountsDone ==
    /\ pc = "fetching"
    /\ "getParsedTokenAccountsByOwner" \in pending
    /\ \E t \in TokenAccountLists : tokenAccounts' = <<t>>
    /\ pending' = pending \ {"getParsedTokenAccountsByOwner"}
    /\ UNCHANGED <<feeds, pc, route, body, query, limit, failed, balance, signatures, response>>

\* The collaborator returns the most recent records, at most limit of them.
GetSignaturesDone ==
    /\ pc = "fetching"
    /\ "getSignaturesForAddress" \in pending
    /\ \E h \in (IF route = "activity" THEN ActivityHistories ELSE Histories) :
          signatures' = <<Slice(h, limit)>>
    /\ pending' = pending \ {"getSignaturesForAddress"}
    /\ UNCHANGED <<feeds, pc, route, body, query, limit, failed, balance, tokenAccounts, response>>

\* Mutant of FetchFails: a failed fetch is answered like an empty result.
FetchFailsSwallowed ==
    /\ pc = "fetching"
    /\ \E f \in pending :
          /\ failed' = f
          /\ pending' = pending \ {f}
          /\ balance' = IF f = "getBalance" THEN <<[sol |-> 0, lamports |-> 0]>> ELSE balance
          /\ tokenAccounts' = IF f = "getParsedTokenAccountsByOwner" THEN << <<>> >>
                               ELSE tokenAccounts
          /\ signatures' = IF f = "getSignaturesForAddress" THEN << <<>> >> ELSE signatures
    /\ UNCHANGED <<feeds, pc, route, body, query, limit, response>>

\* A collaborator call rejects: the await throws, the values of the other
\* calls are never bound, and the catch-all answers 500 with the message and
\* the path.  The calls still outstanding are abandoned.
FetchFails ==
    /\ pc = "fetching"
    /\ \E f \in pending :
          /\ failed' = f
          /\ pending' = pending \ {f}
          /\ response' = ServerError(MessageOf(f), PathOf(route))
    /\ pc' = "responded"
    /\ balance' = <<>>
    /\ tokenAccounts' = <<>>
    /\ signatures' = <<>>
    /\ UNCHANGED <<feeds, route, body, query, limit>>

\* Promise.all resolved: the risk assessment is computed and sent.
RespondAnalyze ==
    /\ pc = "fetching"
    /\ route = "analyze"
    /\ pending = {}
    /\ response' = AnalyzeWallet(balance[1], tokenAccounts[1], signatures[1])
    /\ signatures' = <<SignaturesAfterRules(signatures[1])>>
    /\ pc' = "responded"
    /\ UNCHANGED <<feeds, route, body, query, limit, pending, failed, balance, tokenAccounts>>

\* Promise.all resolved: the anomaly report is computed and sent.
RespondAnomaly ==
    /\ pc = "fetching"
    /\ route = "anomaly"
    /\ pending = {}
    /\ response' = DetectAnomaly(balance[1], signatures[1])
    /\ signatures' = <<SignaturesAfterRules(signatures[1])>>
    /\ pc' = "responded"
    /\ UNCHANGED <<feeds, route, body, query, limit, pending, failed, balance, tokenAccounts>>

RespondBalance ==
    /\ pc = "fetching"
    /\ route = "balance"
    /\ pending = {}
    /\ response' = WalletBalance(balance[1])
    /\ pc' = "responded"
    /\ UNCHANGED <<feeds, route, body, query, limit, pending, failed, balance, tokenAccounts, signatures>>

RespondActivity ==
    /\ pc = "fetching"
    /\ route = "activity"
    /\ pending = {}
    /\ response' = WalletActivity(signatures[1])
    /\ pc' = "responded"
    /\ UNCHANGED <<feeds, route, body, query, limit, pending, failed, balance, tokenAccounts, signatures>>

\* GET /prices: one fetch per configured feed, all issued together.
ReceivePrices ==
    /\ pc = "idle"
    /\ pc' = "fetching"
    /\ route' = "prices"
    /\ feeds' = [i \in 1..Len(ConfiguredFeeds) |-> "pending"]
    /\ UNCHANGED <<body, query, limit, pending, failed, balance, tokenAccounts,
                   signatures, response>>

\* The fetch of one feed ends, in any of the four ways.
FeedDone ==
    /\ pc = "fetching"
    /\ route = "prices"
    /\ \E i \in 1..Len(feeds), o \in FeedOutcomes :
          /\ feeds[i] = "pending"
          /\ feeds' = [feeds EXCEPT ![i] = o]
    /\ UNCHANGED <<pc, route, body, query, limit, pending, failed, balance,
                   tokenAccounts, signatures, response>>

\* Promise.all over the feeds resolved: the prices are collected and sent.
RespondPrices ==
    /\ pc = "fetching"
    /\ route = "prices"
    /\ \A i \in 1..Len(feeds) : feeds[i] # "pending"
    /\ response' = PricesResponse(feeds)
    /\ pc' = "responded"
    /\ UNCHANGED <<route, body, query, limit, pending, failed, balance, tokenAccounts,
                   signatures, feeds>>

\* The invocation ends; the next request starts from nothing.
NextRequest ==
    /\ pc = "responded"
    /\ pc' = "idle"
    /\ route' = "none"
    /\ body' = <<>>
    /\ query' = <<>>
    /\ limit' = 0
    /\ pending' = {}
    /\ failed' = "none"
    /\ balance' = <<>>
    /\ tokenAccounts' = <<>>
    /\ signatures' = <<>>
    /\ feeds' = <<>>
    /\ response' = NoResponse

Next ==
    \/ ReceiveAnalyze
    \/ RejectAnalyze
    \/ ReceiveAnomaly
    \/ RejectAnomaly
    \/ ReceiveBalance
    \/ ReceiveActivity
    \/ GetBalanceDone
    \/ GetTokenAccountsDone
    \/ GetSignaturesDone
    \/ FetchFails
    \/ RespondAnalyze
    \/ RespondAnomaly
    \/ RespondBalance
    \/ RespondActivity
    \/ ReceivePrices
    \/ FeedDone
    \/ RespondPrices
    \/ NextRequest

Spec == Init /\ [][Next]_vars

(***************************************************************************)
(* Version 0.2.0 of the serverless handler: POST /detect/anomaly           *)
(***************************************************************************)
\* Promise.all resolved: the report of the four rules is computed and sent.
RespondAnomalyV2 ==
    /\ pc = "fetching"
    /\ route = "anomaly"
    /\ pending = {}
    /\ response' = DetectAnomalyV2(balance[1], signatures[1])
    /\ pc' = "responded"
    /\ UNCHANGED <<route, body, query, limit, pending, failed, balance, tokenAccounts,
                   signatures, feeds>>

NextV2 ==
    \/ ReceiveAnomaly
    \/ RejectAnomaly
    \/ GetBalanceDone
    \/ GetSignaturesDone
    \/ FetchFails
    \/ RespondAnomalyV2
    \/ NextRequest

SpecV2 == Init /\ [][NextV2]_vars

(***************************************************************************)
(* The Express server: POST /analyze/wallet                                *)
(***************************************************************************)
\* A body with an address: the three fetches are issued.
ReceiveAnalyzeExpress ==
    /\ pc = "idle"
    /\ \E b \in Bodies : ~NoAddress(b) /\ body' = b
    /\ pc' = "fetching"
    /\ route' = "analyze"
    /\ limit' = ExpressLimit
    /\ pending' = {"getBalance", "getParsedTokenAccountsByOwner", "getSignaturesForAddress"}
    /\ UNCHANGED <<query, failed, balance, tokenAccounts, signatures, feeds, response>>

\* A parsed body without an address: 400 before any fetch.
RejectAnalyzeExpress ==
    /\ pc = "idle"
    /\ \E b \in Bodies : b # <<>> /\ NoAddress(b) /\ body' = b
    /\ pc' = "responded"
    /\ route' = "analyze"
    /\ response' = AddressRequiredExpress
    /\ UNCHANGED <<query, limit, pending, failed, balance, tokenAccounts, signatures, feeds>>

\* A collaborator call rejects: the catch of the route answers 400.
FetchFailsExpress ==
    /\ pc = "fetching"
    /\ \E f \in pending :
          /\ failed' = f
          /\ pending' = pending \ {f}
          /\ response' = ClientError(MessageOf(f))
    /\ pc' = "responded"
    /\ balance' = <<>>
    /\ tokenAccounts' = <<>>
    /\ signatures' = <<>>
    /\ UNCHANGED <<route, body, query, limit, feeds>>

RespondAnalyzeExpress ==
    /\ pc = "fetching"
    /\ route = "analyze"
    /\ pending = {}
    /\ response' = AnalyzeWalletExpress(balance[1], tokenAccounts[1], signatures[1])
    /\ pc' = "responded"
    /\ UNCHANGED <<route, body, query, limit, pending, failed, balance, tokenAccounts,
                   signatures, feeds>>

NextExpress ==
    \/ ReceiveAnalyzeExpress
    \/ RejectAnalyzeExpress
    \/ GetBalanceDone
    \/ GetTokenAccountsDone
    \/ GetSignaturesDone
    \/ FetchFailsExpress
    \/ RespondAnalyzeExpress
    \/ NextRequest

SpecExpress == Init /\ [][NextExpress]_vars

(***************************************************************************)
(* Vocabulary of the properties                                            *)
(***************************************************************************)
\* a risk assessment was sent
Analyzed == pc = "responded" /\ route = "analyze" /\ response.status = 200

\* an anomaly report was sent
Reported == pc = "responded" /\ route = "anomaly" /\ response.status = 200

SeqToSet(s) == {s[i] : i \in 1..Len(s)}

Factors == SeqToSet(response.risk.factors)

HasAnomaly(type) == \E i \in 1..Len(response.anomalies) : response.anomalies[i].type = type

SeverityIs(type, severity) ==
    \A i \in 1..Len(response.anomalies) :
        response.anomalies[i].type = type => response.anomalies[i].severity = severity

\* exact comparison of the balance with 0.1 SOL, 0.01 SOL and 10000 SOL
LowSol(b) == b.sol = 0 /\ b.lamports < 100000000

NearZeroSol(b) == b.sol = 0 /\ b.lamports < 10000000

WhaleSol(b) == b.sol >= 10000

NoHoldings(accounts) == \A i \in 1..Len(accounts) : ~(accounts[i].uiAmount > 0)

\* positions of the records whose block time is defined (0 included)
Stamped(sigs) == {i \in 1..Len(sigs) : sigs[i].blockTime # <<>>}

TimeAt(sigs, i) == sigs[i].blockTime[1]

\* newest minus oldest block time over the stamped positions in P
SpanOver(sigs, P) ==
    LET newest == CHOOSE i \in P : \A j \in P : TimeAt(sigs, i) >= TimeAt(sigs, j)
        oldest == CHOOSE i \in P : \A j \in P : TimeAt(sigs, i) <= TimeAt(sigs, j)
    IN TimeAt(sigs, newest) - TimeAt(sigs, oldest)

Cond(b, n) == IF b THEN n ELSE 0

CondTag(b, tag) == IF b THEN <<tag>> ELSE <<>>

(***************************************************************************)
(* Risk assessment                                                         *)
(***************************************************************************)
\* C1: the score is the sum of the deltas of exactly the rules that hold
\* (+20 low balance, +30 empty activity, +10 no holdings, +15 high frequency),
\* the factors are their tags in the fixed order, and no rule suppresses
\* another.  The high-frequency rule holds when the handler's own test does;
\* its exact condition is the subject of C3 and C4.
C1_ScoreIsSumOfHoldingRules ==
    Analyzed =>
        LET b == balance[1]
            sigs == signatures[1]
            low == LowSol(b)
            idle == Len(sigs) = 0
            bare == NoHoldings(tokenAccounts[1])
            fast == HighFrequency(sigs)
        IN /\ response.risk.score =
                 Cond(low, 20) + Cond(idle, 30) + Cond(bare, 10) + Cond(fast, 15)
           /\ response.risk.factors =
                 CondTag(low, "low_sol_balance") \o CondTag(idle, "no_recent_activity")
                   \o CondTag(bare, "no_token_holdings")
                   \o CondTag(fast, "high_frequency_activity")

C1_Witness ==
    /\ Analyzed
    /\ response.risk.score = 60
    /\ response.risk.factors =
          <<"low_sol_balance", "no_recent_activity", "no_token_holdings">>

\* C2: level is low below 20, medium from 20 to 49, high from 50 on.
C2_LevelBuckets ==
    Analyzed =>
        LET score == response.risk.score
            level == response.risk.level
        IN /\ score < 20 => level = "low"
           /\ (20 <= score /\ score < 50) => level = "medium"
           /\ score >= 50 => level = "high"

C2_Witness ==
    Analyzed /\ response.risk.score = 50 /\ response.risk.level = "high"

\* C3 (as claimed): high_frequency_activity fires exactly when there are at
\* least 15 records and the span between the newest and the oldest block time
\* among the first 15 records is below 3600 seconds, whatever follows them.
C3_Claim_First15Span ==
    Analyzed =>
        LET sigs == signatures[1]
            first == Stamped(sigs) \cap 1..15
        IN ("high_frequency_activity" \in Factors)
             <=> /\ Len(sigs) >= 15
                 /\ Cardinality(first) >= 2
                 /\ SpanOver(sigs, first) < 3600

\* C4: with fewer than 2 records carrying a defined block time the
\* high-frequency rule adds neither score nor tag, whatever the length.
C4_SkippedWithoutTwoTimes ==
    (Analyzed /\ Cardinality(Stamped(signatures[1])) < 2) =>
        /\ "high_frequency_activity" \notin Factors
        /\ response.risk.score =
              Cond(LowSol(balance[1]), 20) + Cond(Len(signatures[1]) = 0, 30)
                + Cond(NoHoldings(tokenAccounts[1]), 10)

C4_Witness ==
    /\ Analyzed
    /\ Len(signatures[1]) >= 15
    /\ Cardinality(Stamped(signatures[1])) = 1
    /\ \E i \in Stamped(signatures[1]) : TimeAt(signatures[1], i) > 0
    /\ "high_frequency_activity" \notin Factors

\* C5 (as claimed): balance >= 0.1 SOL, a token held and 15 to 20 records, all
\* time-stamped and spanning less than 3600 seconds, give exactly score 15,
\* factors [high_frequency_activity], level low.
C5_Claim_HighFrequencyAlone ==
    LET sigs == signatures[1]
    IN (/\ Analyzed
        /\ ~LowSol(balance[1])
        /\ ~NoHoldings(tokenAccounts[1])
        /\ Len(sigs) >= 15 /\ Len(sigs) <= 20
        /\ Stamped(sigs) = 1..Len(sigs)
        /\ SpanOver(sigs, Stamped(sigs)) < 3600)
       => response.risk = [score |-> 15, level |-> "low",
                           factors |-> <<"high_frequency_activity">>]

(***************************************************************************)
(* Anomaly report                                                          *)
(***************************************************************************)
Failed(sigs) == {i \in 1..Len(sigs) : sigs[i].err # "null"}

\* position of the k-th record with a defined block time
NthStamped(sigs, k) ==
    CHOOSE i \in Stamped(sigs) : Cardinality({j \in Stamped(sigs) : j <= i}) = k

\* the first 10 characters of the signature of every record
Prefixes10(sigs) == [i \in 1..Len(sigs) |-> [k \in 1..10 |-> sigs[i].signature[k]]]

\* positions of the records whose prefix occurs at least m times
InGroupOf(sigs, m) ==
    LET pre == Prefixes10(sigs)
    IN {i \in 1..Len(sigs) :
          Cardinality({j \in 1..Len(sigs) : pre[j] = pre[i]}) >= m}

\* C6: high_failure_rate (medium) is reported exactly when the list is not
\* empty and more than 30% of its records failed; exactly 30% does not flag.
C6_HighFailureRate ==
    Reported =>
        LET sigs == signatures[1]
        IN /\ HasAnomaly("high_failure_rate")
                <=> (Len(sigs) > 0 /\ 10 * Cardinality(Failed(sigs)) > 3 * Len(sigs))
           /\ SeverityIs("high_failure_rate", "medium")

C6_Witness ==
    /\ Reported
    /\ Len(signatures[1]) = 10
    /\ Cardinality(Failed(signatures[1])) = 4
    /\ HasAnomaly("high_failure_rate")

\* C7 (as claimed): burst_activity (high) is reported exactly when there are at
\* least 20 records, at least 10 of them have a defined block time, and among
\* the time-stamped records, most recent first, time[0] - time[9] < 600.
C7_Claim_BurstActivity ==
    Reported =>
        LET sigs == signatures[1]
        IN /\ HasAnomaly("burst_activity")
                <=> /\ Len(sigs) >= 20
                    /\ Cardinality(Stamped(sigs)) >= 10
                    /\ TimeAt(sigs, NthStamped(sigs, 1))
                          - TimeAt(sigs, NthStamped(sigs, 10)) < 600
           /\ SeverityIs("burst_activity", "high")

\* C8: whale_wallet (info) is reported exactly when the balance is at least
\* 10000 SOL, whatever the activity list and whatever the other rules found.
C8_WhaleWallet ==
    Reported =>
        /\ HasAnomaly("whale_wallet") <=> WhaleSol(balance[1])
        /\ SeverityIs("whale_wallet", "info")

C8_Witness ==
    /\ Reported
    /\ balance[1] = [sol |-> 10000, lamports |-> 0]
    /\ HasAnomaly("whale_wallet")
    /\ HasAnomaly("high_failure_rate")
    /\ HasAnomaly("potential_circular_trading")

\* C9: drained_wallet (high) is reported exactly when the balance is below
\* 0.01 SOL and there are more than 10 records; then overallRisk is high.
C9_DrainedWallet ==
    Reported =>
        /\ HasAnomaly("drained_wallet")
             <=> (NearZeroSol(balance[1]) /\ Len(signatures[1]) > 10)
        /\ SeverityIs("drained_wallet", "high")
        /\ HasAnomaly("drained_wallet") => response.overallRisk = "high"

C9_Witness ==
    /\ Reported
    /\ Len(signatures[1]) = 11
    /\ response.anomalies = <<Anomaly("drained_wallet", "high")>>
    /\ response.overallRisk = "high"

\* C10: potential_circular_trading (medium) is reported exactly when at least
\* 2 distinct 10-character signature prefixes occur 3 or more times each.
C10_CircularTrading ==
    Reported =>
        LET sigs == signatures[1]
        IN /\ HasAnomaly("potential_circular_trading")
                <=> LET pre == Prefixes10(sigs)
                        repeated == {pre[i] : i \in InGroupOf(sigs, 3)}
                    IN \E p, q \in repeated : p # q
           /\ SeverityIs("potential_circular_trading", "medium")

C10_Witness ==
    /\ Reported
    /\ HasAnomaly("potential_circular_trading")
    /\ InGroupOf(signatures[1], 3) = 1..6
    /\ InGroupOf(signatures[1], 4) = {}

\* consecutive differences of a sequence of times
Intervals(ts) == [i \in 1..(Len(ts) - 1) |-> ts[i] - ts[i + 1]]

\* mean > 0 and population standard deviation / mean < 0.15, exactly:
\* with n numbers of sum S and sum of squares Q, 400 * (n * Q - S^2) < 9 * S^2
NearlyUniform(ds) ==
    LET n == Len(ds)
        S == SumSeq(ds)
        Q == SumSeq([i \in 1..n |-> ds[i] * ds[i]])
    IN S > 0 /\ n * Q - S * S <= (9 * S * S - 1) \div 400

\* the defined block times (0 included), in list order
RECURSIVE StampedTimes(_)
StampedTimes(sigs) ==
    IF sigs = <<>> THEN <<>>
    ELSE (IF Head(sigs).blockTime # <<>> THEN <<Head(sigs).blockTime[1]>> ELSE <<>>)
            \o StampedTimes(Tail(sigs))

\* C11 (as claimed): automated_timing_pattern (medium) is reported exactly when
\* there are at least 10 records, at least 5 with a defined block time, and the
\* consecutive differences of the block times sorted descending have mean > 0
\* and stddev / mean < 0.15; equal block times (mean 0) are not flagged.
C11_Claim_TimingPattern ==
    Reported =>
        LET sigs == signatures[1]
            ts == SortDesc(StampedTimes(sigs))
        IN /\ HasAnomaly("automated_timing_pattern")
                <=> /\ Len(sigs) >= 10
                    /\ Len(ts) >= 5
                    /\ NearlyUniform(Intervals(ts))
           /\ SeverityIs("automated_timing_pattern", "medium")

Severities == {response.anomalies[i].severity : i \in 1..Len(response.anomalies)}

\* C12: overallRisk is high iff some entry is high, medium iff none is high
\* and some is medium, low otherwise; info entries do not count.
C12_OverallRisk ==
    Reported =>
        LET counted == Severities \ {"info"}
        IN /\ response.overallRisk = "high" <=> "high" \in counted
           /\ response.overallRisk = "medium"
                <=> ("high" \notin counted /\ "medium" \in counted)
           /\ response.overallRisk = "low"
                <=> ("high" \notin counted /\ "medium" \notin counted)

C12_Witness ==
    /\ Reported
    /\ Severities = {"info"}
    /\ Len(signatures[1]) > 0
    /\ response.overallRisk = "low"

CondEntry(b, type, severity) == IF b THEN <<Anomaly(type, severity)>> ELSE <<>>

\* C13: every rule contributes zero or one entry whatever the other rules
\* found, the entries come in the fixed order failure rate, burst, whale,
\* drained, circular, timing, no type occurs twice, and anomalyCount is the
\* length of the list, at most 6.
C13_AllRulesInOrder ==
    Reported =>
        LET b == balance[1]
            sigs == signatures[1]
            list == response.anomalies
        IN /\ list =
                 CondEntry(HighFailureRate(sigs), "high_failure_rate", "medium")
                   \o CondEntry(BurstActivity(sigs), "burst_activity", "high")
                   \o CondEntry(WhaleWallet(b), "whale_wallet", "info")
                   \o CondEntry(DrainedWallet(b, sigs), "drained_wallet", "high")
                   \o CondEntry(CircularTrading(sigs), "potential_circular_trading", "medium")
                   \o CondEntry(TimingPattern(sigs), "automated_timing_pattern", "medium")
           /\ \A i, j \in 1..Len(list) : list[i].type = list[j].type => i = j
           /\ response.anomalyCount = Len(list)
           /\ response.anomalyCount <= 6

C13_Witness ==
    /\ Reported
    /\ response.anomalyCount = 5
    /\ HasAnomaly("burst_activity")
    /\ HasAnomaly("drained_wallet")

\* C14: with an empty activity list the report holds nothing but whale_wallet
\* (present iff the balance is at least 10000 SOL) and overallRisk is low.
C14_EmptyActivity ==
    (Reported /\ Len(signatures[1]) = 0) =>
        /\ response.anomalies =
              CondEntry(WhaleSol(balance[1]), "whale_wallet", "info")
        /\ response.overallRisk = "low"

C14_Witness ==
    /\ Reported
    /\ Len(signatures[1]) = 0
    /\ response.anomalies = <<Anomaly("whale_wallet", "info")>>
    /\ response.overallRisk = "low"

Fetched == pending = {} /\ failed = "none" /\ signatures # <<>>

\* an access that reads outside its array or divides by zero
Faulty(a) ==
    IF a[1] = "index" THEN a[3] < 0 \/ a[3] >= a[2] ELSE a[2] = 0

\* C17: for every fetched snapshot (empty list, no holdings, undefined block
\* times included) both evaluations end with a result, and no rule divides by
\* zero or reads a time index that does not exist.
C17_NoFault ==
    /\ (pc = "responded" /\ route = "analyze" /\ Fetched) =>
          /\ response.status = 200
          /\ \A a \in AnalyzeAccesses(signatures[1]) : ~Faulty(a)
    /\ (pc = "responded" /\ route = "anomaly" /\ Fetched) =>
          /\ response.status = 200
          /\ \A a \in DetectAccesses(signatures[1]) : ~Faulty(a)

C17_Witness ==
    /\ Reported
    /\ response.status = 200
    /\ Len(signatures[1]) >= 20
    /\ Len(BlockTimes(signatures[1])) \in 1..9

\* the fetches of the two scoring routes
ScoringFetches(r) ==
    IF r = "analyze"
    THEN {"getBalance", "getParsedTokenAccountsByOwner", "getSignaturesForAddress"}
    ELSE {"getBalance", "getSignaturesForAddress"}

\* C18: the fetches of a scoring request are all outstanding together, the
\* assessment is computed only when none is outstanding any more, and it is
\* the assessment of the fetched values whatever the order they arrived in.
C18_ParallelThenScore ==
    [][/\ (pc = "idle" /\ pc' = "fetching" /\ route' \in {"analyze", "anomaly"})
            => pending' = ScoringFetches(route')
       /\ (pc = "fetching" /\ response'.status = 200 /\ route = "analyze")
            => /\ pending = {}
               /\ response' = AnalyzeWallet(balance[1], tokenAccounts[1], signatures[1])
       /\ (pc = "fetching" /\ response'.status = 200 /\ route = "anomaly")
            => /\ pending = {}
               /\ response' = DetectAnomaly(balance[1], signatures[1])]_vars

C18_Witness ==
    /\ pc = "fetching"
    /\ route = "analyze"
    /\ pending = {"getBalance"}
    /\ Len(signatures[1]) > 0

\* C19: the limit passed to the signature-history collaborator by the activity
\* listing is 20 when the parameter is absent, not a number or 0, the value
\* itself from 1 to 100, 100 above; it never exceeds 100.
C19_ActivityLimit ==
    (pc # "idle" /\ route = "activity") =>
        LET n == ToNumber(query)
        IN /\ (n = <<>> \/ n[1] = 0) => limit = 20
           /\ (n # <<>> /\ n[1] >= 1 /\ n[1] <= 100) => limit = n[1]
           /\ (n # <<>> /\ n[1] > 100) => limit = 100
           /\ limit <= 100

C19_Witness ==
    /\ pc = "responded"
    /\ route = "activity"
    /\ response.status = 200
    /\ query = << <<"1", "0", "1">> >>
    /\ limit = 100
    /\ response.count > 20

\* C20: isWhale of the balance response, isWhale of the analysis summary and
\* the presence of the whale_wallet anomaly all mean balance >= 10000 SOL.
C20_OneWhaleThreshold ==
    /\ (pc = "responded" /\ route = "balance" /\ response.status = 200)
          => (response.isWhale <=> WhaleSol(balance[1]))
    /\ Analyzed => (response.summary.isWhale <=> WhaleSol(balance[1]))
    /\ Reported => (HasAnomaly("whale_wallet") <=> WhaleSol(balance[1]))

C20_Witness ==
    /\ pc = "responded"
    /\ route = "balance"
    /\ response.status = 200
    /\ balance[1] = [sol |-> 10000, lamports |-> 0]
    /\ response.isWhale

\* C21 (as claimed): the time sequence of the high-frequency, burst and timing
\* rules holds the block time of every record whose block time is defined,
\* a block time of 0 included, and leaves out only the undefined ones.
C21_Claim_DefinedTimesCounted ==
    (Analyzed \/ Reported) =>
        BlockTimes(signatures[1]) = StampedTimes(signatures[1])

\* the scores the four rules can add up to
PossibleScores == {0, 10, 15, 20, 25, 30, 35, 40, 45, 50, 60}

\* C22: the score is one of 0, 10, 15, 20, 25, 30, 35, 40, 45, 50, 60, so at
\* most 60; no_recent_activity and high_frequency_activity never both occur.
C22_ScoreSet ==
    Analyzed =>
        /\ response.risk.score \in PossibleScores
        /\ response.risk.score <= 60
        /\ ~({"no_recent_activity", "high_frequency_activity"} \subseteq Factors)

C22_Witness ==
    /\ Analyzed
    /\ response.risk.score = 45
    /\ "high_frequency_activity" \in Factors

\* C23: the level is high exactly when the factors hold both low_sol_balance
\* and no_recent_activity; otherwise it is low or medium.
C23_HighIffLowAndIdle ==
    Analyzed =>
        LET both == {"low_sol_balance", "no_recent_activity"} \subseteq Factors
        IN /\ response.risk.level = "high" <=> both
           /\ ~both => response.risk.level \in {"low", "medium"}

C23_Witness ==
    /\ Analyzed
    /\ response.risk.level = "high"
    /\ response.risk.factors = <<"low_sol_balance", "no_recent_activity">>

\* C24: no report holds both a whale_wallet and a drained_wallet entry.
C24_NotWhaleAndDrained ==
    Reported => ~(HasAnomaly("whale_wallet") /\ HasAnomaly("drained_wallet"))

C24_Witness ==
    /\ Reported
    /\ Len(signatures[1]) > 10
    /\ balance[1].lamports = 0
    /\ HasAnomaly("whale_wallet")
    /\ ~HasAnomaly("drained_wallet")

\* C25 (as claimed): whatever the limit parameter of the activity listing, the
\* limit passed to the signature-history collaborator is an integer in 1..100.
C25_Claim_LimitInRange ==
    (pc # "idle" /\ route = "activity") => limit \in 1..100

\* the request body is missing or holds no address
MissingAddress == body \in {<<>>, <<[address |-> <<>>]>>}

FailureAnswered ==
    failed # "none" =>
        /\ pc = "responded"
        /\ DOMAIN response = {"status", "kind", "error", "path"}
        /\ response.status = 500
        /\ response.error = failed
        /\ route = "analyze" => response.path = "/analyze/wallet"
        /\ route = "anomaly" => response.path = "/detect/anomaly"

\* a response is sent when the request is answered and at no other step
RespondsOnce ==
    /\ (pc # "responded" /\ pc' = "responded") => (response = NoResponse /\ response' # NoResponse)
    /\ response' # response =>
          \/ (pc # "responded" /\ pc' = "responded")
          \/ (pc = "responded" /\ pc' = "idle" /\ response' = NoResponse)

\* C29: a request gets one response and no second one; when a fetch of
\* POST /analyze/wallet or POST /detect/anomaly fails, the response is the 500
\* error with the message and the path and holds no assessment or report,
\* whichever fetch failed and whichever others had completed before.
C29_FailureIs500 == [](FailureAnswered) /\ [][RespondsOnce]_vars

C29_Witness ==
    /\ pc = "responded"
    /\ route = "analyze"
    /\ failed = "getParsedTokenAccountsByOwner"
    /\ pending = {"getBalance"}
    /\ response.status = 500

\* the configured pairs whose fetch ended with price data
PairsWithData == {ConfiguredFeeds[i] : i \in {j \in 1..Len(feeds) : feeds[j] = "data"}}

PricesAnswered ==
    (pc = "responded" /\ route = "prices") =>
        /\ response.status = 200
        /\ DOMAIN response.prices = PairsWithData
        /\ response.count = Cardinality(PairsWithData)
        /\ response.availablePairs = ConfiguredFeeds

\* C30: GET /prices issues the fetches of all feeds together; a feed whose
\* fetch throws, is not OK or holds no price data is left out and nothing
\* else happens: the response is a success, prices holds exactly the pairs
\* whose fetch returned price data, count is their number, and availablePairs
\* lists every configured feed.
C30_PricesLeaveOutFailedFeeds ==
    /\ [](PricesAnswered)
    /\ [][(pc = "idle" /\ route' = "prices")
            => (Len(feeds') = Len(ConfiguredFeeds)
                  /\ \A i \in 1..Len(feeds') : feeds'[i] = "pending")]_vars

C30_Witness ==
    /\ pc = "responded"
    /\ route = "prices"
    /\ {feeds[i] : i \in 1..Len(feeds)} = FeedOutcomes
    /\ response.count = 1
    /\ Len(response.availablePairs) > 1

\* a list without the entries of the two rules that version 0.4.0 added
WithoutAddedRules(list) ==
    SelectSeq(list, LAMBDA a :
        a.type \notin {"potential_circular_trading", "automated_timing_pattern"})

RiskRank(risk) == CASE risk = "low" -> 0 [] risk = "medium" -> 1 [] risk = "high" -> 2

\* C26: for the balance and activity list a version 0.2.0 report was computed
\* from, the 0.2.0 anomaly list is the 0.4.0 list without its
\* potential_circular_trading and automated_timing_pattern entries, and the
\* 0.4.0 overallRisk is not lower than the 0.2.0 one.
C26_V4ExtendsV2 ==
    Reported =>
        LET v4 == DetectAnomaly(balance[1], signatures[1])
        IN /\ response.anomalies = WithoutAddedRules(v4.anomalies)
           /\ RiskRank(v4.overallRisk) >= RiskRank(response.overallRisk)

C26_Witness ==
    /\ Reported
    /\ response.anomalies = <<Anomaly("whale_wallet", "info")>>
    /\ response.overallRisk = "low"
    /\ LET v4 == DetectAnomaly(balance[1], signatures[1])
       IN v4.anomalyCount = 3 /\ v4.overallRisk = "medium"

\* C27: the Express analysis is computed from fewer than 15 records, and for
\* its balance, token holdings and activity list the serverless analysis has
\* the same score, level and factors.
C27_ExpressAgreesBelow15 ==
    Analyzed =>
        /\ Len(signatures[1]) < 15
        /\ response.risk = AnalyzeWallet(balance[1], tokenAccounts[1], signatures[1]).risk

C27_Witness ==
    /\ Analyzed
    /\ "lastActive" \in DOMAIN response.summary
    /\ Len(signatures[1]) = 10
    /\ Len(BlockTimes(signatures[1])) = 10
    /\ response.risk.score = 30

====
